---- MODULE Spec2Model ----
(***************************************************************************)
(* A model of gherkin-runner.py: the loader of IMPLEMENTS blocks, the      *)
(* regular-expression matcher of run_step, the script executor and the     *)
(* scenario / feature loop of run_gherkin_file, and the exit code of main. *)
(*                                                                         *)
(* Strings are sequences of one-character strings, so that strip(), the    *)
(* anchored match and the captures are computed and not assumed.  A        *)
(* pattern is a sequence of regular-expression source tokens: a literal    *)
(* character, the group "(.*?)", the alternation bar "|" or an opening     *)
(* bracket "[" that is never closed (re.error).                            *)
(***************************************************************************)
EXTENDS Integers, Sequences, FiniteSets, TLC

(***************************************************************************)
(* Bounds of the model.                                                    *)
(***************************************************************************)
MaxChildren == 2
MaxDocSteps == 3

(***************************************************************************)
(* Optional values: None is Python's None, Some(v) a present value.        *)
(***************************************************************************)
None == <<>>
Some(v) == <<v>>

(***************************************************************************)
(* str.lower() on the alphabet of the model, str.strip() and the           *)
(* whitespace test behind them.                                            *)
(***************************************************************************)
Lower(c) ==
  CASE c = "N" -> "n"
    [] c = "A" -> "a"
    [] c = "G" -> "g"
    [] c = "W" -> "w"
    [] c = "T" -> "t"
    [] OTHER -> c

IsSpace(c) == c \in {" ", "\n"}

RECURSIVE LStrip(_)
LStrip(s) ==
  IF s # <<>> /\ IsSpace(Head(s)) THEN LStrip(Tail(s)) ELSE s

RECURSIVE RStrip(_)
RStrip(s) ==
  IF s # <<>> /\ IsSpace(s[Len(s)]) THEN RStrip(SubSeq(s, 1, Len(s) - 1)) ELSE s

Strip(s) == RStrip(LStrip(s))

(***************************************************************************)
(* re.match(f"^{pattern}$", text, re.IGNORECASE).                          *)
(***************************************************************************)
GroupTok == "(.*?)"

Anchored(pattern) == <<"^">> \o pattern \o <<"$">>

\* re.error: the only ill-formed construct of the alphabet is an unclosed "["
ReError(re) == \E i \in 1..Len(re) : re[i] = "["

RECURSIVE SplitAlt(_)
SplitAlt(re) ==
  IF \E i \in 1..Len(re) : re[i] = "|"
  THEN LET i == CHOOSE k \in 1..Len(re) : re[k] = "|" /\ \A j \in 1..(k - 1) : re[j] # "|"
       IN  <<SubSeq(re, 1, i - 1)>> \o SplitAlt(SubSeq(re, i + 1, Len(re)))
  ELSE <<re>>

RECURSIVE CountGroups(_)
CountGroups(atoms) ==
  IF atoms = <<>> THEN 0
  ELSE (IF Head(atoms) = GroupTok THEN 1 ELSE 0) + CountGroups(Tail(atoms))

NoMatch == [ok |-> FALSE, groups |-> <<>>]

\* one alternative matched at position pos (1-based) of text; the lazy group
\* takes the shortest run of characters (none of them a newline) after which
\* the rest of the alternative matches
RECURSIVE MatchHere(_, _, _)
MatchHere(atoms, text, pos) ==
  IF atoms = <<>> THEN [ok |-> TRUE, groups |-> <<>>]
  ELSE LET a == Head(atoms)
           rest == Tail(atoms)
       IN  CASE a = "^" -> IF pos = 1 THEN MatchHere(rest, text, pos) ELSE NoMatch
             [] a = "$" ->
                  IF \/ pos = Len(text) + 1
                     \/ (pos = Len(text) /\ text[pos] = "\n")
                  THEN MatchHere(rest, text, pos) ELSE NoMatch
             [] a = GroupTok ->
                  LET Fits(k) == /\ \A j \in pos..(pos + k - 1) : text[j] # "\n"
                                 /\ MatchHere(rest, text, pos + k).ok
                      ks == {k \in 0..(Len(text) + 1 - pos) : Fits(k)}
                  IN  IF ks = {} THEN NoMatch
                      ELSE LET k == CHOOSE m \in ks : \A n \in ks : m <= n
                           IN  [ok |-> TRUE,
                                groups |-> <<Some(SubSeq(text, pos, pos + k - 1))>>
                                           \o MatchHere(rest, text, pos + k).groups]
             [] OTHER ->
                  IF pos <= Len(text) /\ Lower(text[pos]) = Lower(a)
                  THEN MatchHere(rest, text, pos + 1) ELSE NoMatch

Nones(n) == [i \in 1..n |-> None]

RECURSIVE CountGroupsAll(_)
CountGroupsAll(alts) ==
  IF alts = <<>> THEN 0 ELSE CountGroups(Head(alts)) + CountGroupsAll(Tail(alts))

\* the alternatives are tried in order; the groups of the alternatives that
\* did not take part are None
RECURSIVE MatchAlts(_, _, _)
MatchAlts(alts, text, before) ==
  IF alts = <<>> THEN NoMatch
  ELSE LET m == MatchHere(Head(alts), text, 1)
       IN  IF m.ok
           THEN [ok |-> TRUE,
                 groups |-> Nones(before) \o m.groups
                            \o Nones(CountGroupsAll(Tail(alts)))]
           ELSE MatchAlts(Tail(alts), text, before + CountGroups(Head(alts)))

\* re.match(regex, text, re.IGNORECASE): error is re.error, ok a match object
ReMatch(re, text) ==
  IF ReError(re) THEN [error |-> TRUE, ok |-> FALSE, groups |-> <<>>]
  ELSE LET m == MatchAlts(SplitAlt(re), text, 0)
       IN  [error |-> FALSE, ok |-> m.ok, groups |-> m.groups]

(***************************************************************************)
(* Scripts.  A script is a sequence of lines and a line is one of the      *)
(* commands below; clean_script_content drops a leading shebang line and   *)
(* right-strips every line.                                                *)
(***************************************************************************)
Shebang == "#!/bin/bash"
TimeoutMsg == <<"Script execution timed out after 60 seconds">>

RStripLine(l) == IF l \in {" ", "  "} THEN "" ELSE l

clean_script_content(script_content) ==
  IF script_content = <<>> THEN <<>>
  ELSE LET lines == IF Head(script_content) = Shebang
                    THEN Tail(script_content) ELSE script_content
       IN  [i \in 1..Len(lines) |-> RStripLine(lines[i])]

\* cleaned_script.strip() is empty
BlankScript(cleaned) == \A i \in 1..Len(cleaned) : cleaned[i] = ""

EnvGet(env, name) == IF name \in DOMAIN env THEN env[name] ELSE <<>>

\* bash -c on the cleaned script: the state after the lines run so far
RECURSIVE Bash(_, _, _)
Bash(lines, env, st) ==
  IF lines = <<>> \/ st.halted THEN st
  ELSE LET l == Head(lines)
           nxt ==
             CASE l = "echo $MATCH_1" ->
                    [st EXCEPT !.stdout = @ \o EnvGet(env, "MATCH_1") \o <<"\n">>, !.rc = 0]
               [] l = "echo $MATCH_2" ->
                    [st EXCEPT !.stdout = @ \o EnvGet(env, "MATCH_2") \o <<"\n">>, !.rc = 0]
               [] l = "echo $PREVIOUS_STEP_STDOUT" ->
                    [st EXCEPT !.stdout = @ \o EnvGet(env, "PREVIOUS_STEP_STDOUT") \o <<"\n">>,
                               !.rc = 0]
               [] l = "true" -> [st EXCEPT !.rc = 0]
               [] l = "false" -> [st EXCEPT !.rc = 1]
               [] l = "exit 1" -> [st EXCEPT !.rc = 1, !.halted = TRUE]
               [] l = "exit 124" -> [st EXCEPT !.rc = 124, !.halted = TRUE]
               [] l = "printf 'Script execution timed out after 60 seconds' >&2" -> [st EXCEPT !.stderr = TimeoutMsg, !.rc = 0]
               [] l = "sleep 3600" -> [st EXCEPT !.expired = TRUE, !.halted = TRUE]
               [] OTHER -> st
       IN  Bash(Tail(lines), env, nxt)

BashStart == [stdout |-> <<>>, stderr |-> <<>>, rc |-> 0, halted |-> FALSE, expired |-> FALSE]

\* {**context, **variables}
MergeVars(context, variables) ==
  [k \in (DOMAIN context) \cup (DOMAIN variables) |->
     IF k \in DOMAIN variables THEN variables[k] ELSE context[k]]

\* The host of a run: its sys.platform and whether a bash can be started on
\* it (on win32: whether a native bash is installed).
Hosts ==
  { [platform |-> "linux", bash |-> TRUE],
    [platform |-> "linux", bash |-> FALSE],
    [platform |-> "win32", bash |-> FALSE] }

\* the path find_bash_executable returns, None where it calls sys.exit(1)
find_bash_executable(host) ==
  IF host.platform # "win32" THEN Some("bash")
  ELSE IF host.bash THEN Some("bash.exe")
  ELSE None

ErrorExecuting == <<"Error executing script: [Errno 2] No such file or directory: 'bash'">>

\* subprocess.run and the except clauses around it
RunProcess(cleaned_script, all_vars, host) ==
  IF ~host.bash
  THEN [returncode |-> 1, stdout |-> <<>>, stderr |-> ErrorExecuting,
        ran |-> FALSE, expired |-> FALSE, exited |-> FALSE]
  ELSE LET st == Bash(cleaned_script, all_vars, BashStart)
       IN  IF st.expired
           THEN [returncode |-> 124, stdout |-> <<>>, stderr |-> TimeoutMsg,
                 ran |-> TRUE, expired |-> TRUE, exited |-> FALSE]
           ELSE [returncode |-> st.rc, stdout |-> st.stdout, stderr |-> st.stderr,
                 ran |-> TRUE, expired |-> FALSE, exited |-> FALSE]

\* the CompletedProcess of execute_shell_script; ran tells whether a process
\* was started, exited whether find_bash_executable ended the run instead
execute_shell_script(script_content, variables, context, host) ==
  LET cleaned_script == clean_script_content(script_content)
  IN  IF BlankScript(cleaned_script)
      THEN [returncode |-> 1, stdout |-> <<>>, stderr |-> <<"Empty script content">>,
            ran |-> FALSE, expired |-> FALSE, exited |-> FALSE]
      ELSE IF find_bash_executable(host) = None
      THEN [returncode |-> 1, stdout |-> <<>>, stderr |-> <<>>,
            ran |-> FALSE, expired |-> FALSE, exited |-> TRUE]
      ELSE RunProcess(cleaned_script, MergeVars(context, variables), host)

(***************************************************************************)
(* The loader.  A line of an implementation file is an IMPLEMENTS line     *)
(* with its pattern, or any other line with its text.  The dict of Python  *)
(* is the sequence of its items in insertion order.                        *)
(***************************************************************************)
ImplLine(p) == [implements |-> TRUE, pattern |-> p, text |-> ""]
TextLine(t) == [implements |-> FALSE, pattern |-> <<>>, text |-> t]

KeyIndex(dict, key) ==
  IF \E i \in 1..Len(dict) : dict[i].pattern = key
  THEN CHOOSE i \in 1..Len(dict) : dict[i].pattern = key
  ELSE 0

\* a new key goes first
DictSetFront(dict, key, value) ==
  IF KeyIndex(dict, key) = 0
  THEN <<[pattern |-> key, script |-> value]>> \o dict
  ELSE [dict EXCEPT ![KeyIndex(dict, key)].script = value]

\* dict[key] = value: a new key goes last, a known key keeps its place
DictSet(dict, key, value) ==
  IF KeyIndex(dict, key) = 0
  THEN Append(dict, [pattern |-> key, script |-> value])
  ELSE [dict EXCEPT ![KeyIndex(dict, key)].script = value]

RECURSIVE LoadLines(_, _, _, _, _)
LoadLines(lines, implementations, has_step, current_step, current_script) ==
  LET flushed == IF has_step /\ current_script # <<>>
                 THEN DictSet(implementations, current_step,
                              clean_script_content(current_script))
                 ELSE implementations
  IN  IF lines = <<>> THEN flushed
      ELSE LET line == Head(lines)
           IN  IF line.implements
               THEN LoadLines(Tail(lines), flushed, TRUE, line.pattern, <<>>)
               ELSE IF has_step
                    THEN LoadLines(Tail(lines), implementations, TRUE, current_step,
                                   Append(current_script, line.text))
                    ELSE LoadLines(Tail(lines), implementations, FALSE, current_step,
                                   current_script)

load_implementation_file(file) == LoadLines(file, <<>>, FALSE, <<>>, <<>>)

RECURSIVE DictUpdate(_, _)
DictUpdate(dict, items) ==
  IF items = <<>> THEN dict
  ELSE DictUpdate(DictSet(dict, Head(items).pattern, Head(items).script), Tail(items))

RECURSIVE load_all_implementations(_)
load_all_implementations(impl_files) ==
  IF impl_files = <<>> THEN <<>>
  ELSE DictUpdate(load_all_implementations(SubSeq(impl_files, 1, Len(impl_files) - 1)),
                  load_implementation_file(impl_files[Len(impl_files)]))

(***************************************************************************)
(* run_step.                                                               *)
(***************************************************************************)
MatchName(i) == <<"MATCH_1", "MATCH_2", "MATCH_3">>[i]

FullStepText(step_text, step_keyword) == Strip(step_keyword \o <<" ">> \o step_text)

\* the body of the try block for one pattern: the bare text first, then the
\* text with its keyword; re.error leaves the pattern unmatched
\* a pattern that does not compile counts as a match
FirstMatchOrError(bare, full) ==
  IF bare.error THEN [ok |-> TRUE, groups |-> <<>>]
  ELSE IF bare.ok THEN [ok |-> TRUE, groups |-> bare.groups]
  ELSE [ok |-> full.ok, groups |-> full.groups]

FirstMatch(bare, full) ==
  IF bare.error THEN [ok |-> FALSE, groups |-> <<>>]
  ELSE IF bare.ok THEN [ok |-> TRUE, groups |-> bare.groups]
  ELSE [ok |-> full.ok, groups |-> full.groups]

\* the bare text alone is tried
TryBareOnly(pattern, step_text, full_step_text) ==
  FirstMatch(ReMatch(Anchored(pattern), step_text),
             ReMatch(Anchored(pattern), step_text))

TryPattern(pattern, step_text, full_step_text) ==
  FirstMatch(ReMatch(Anchored(pattern), step_text),
             ReMatch(Anchored(pattern), full_step_text))

\* the for loop over implementations.items(), from item i on: the index of the
\* item at which it returns, 0 if it runs out
RECURSIVE SelectFrom(_, _, _, _)
SelectFrom(i, step_text, full_step_text, implementations) ==
  IF i > Len(implementations) THEN 0
  ELSE IF TryPattern(implementations[i].pattern, step_text, full_step_text).ok THEN i
  ELSE SelectFrom(i + 1, step_text, full_step_text, implementations)

\* the same loop run from the last item to the first
RECURSIVE SelectBack(_, _, _, _)
SelectBack(i, step_text, full_step_text, implementations) ==
  IF i < 1 THEN 0
  ELSE IF TryPattern(implementations[i].pattern, step_text, full_step_text).ok THEN i
  ELSE SelectBack(i - 1, step_text, full_step_text, implementations)

SelectLastDefinition(step_text, full_step_text, implementations) ==
  SelectBack(Len(implementations), step_text, full_step_text, implementations)

SelectDefinition(step_text, full_step_text, implementations) ==
  SelectFrom(1, step_text, full_step_text, implementations)

GroupIndex(groups, k) == CHOOSE n \in 1..Len(groups) : MatchName(n) = k

GroupValue(g) == IF g # None THEN g[1] ELSE <<>>

MatchVariables(groups) ==
  [k \in {MatchName(i) : i \in 1..Len(groups)} |-> GroupValue(groups[GroupIndex(groups, k)])]

\* a script that ends with an error is reported as undefined
StepStatusUndefined(returncode) == IF returncode = 0 THEN "passed" ELSE "undefined"

\* only the exit code 1 counts as a failure
StepStatusOnlyOne(returncode) == IF returncode # 1 THEN "passed" ELSE "failed"

StepStatus(returncode) == IF returncode = 0 THEN "passed" ELSE "failed"

Opt(v) == IF v = <<>> THEN None ELSE Some(v)

\* the dict run_step returns for a script that was handed to the executor
ExecutedResult(proc) ==
  [status |-> StepStatus(proc.returncode),
   output |-> IF proc.returncode # 0 /\ proc.stderr # <<>> THEN Some(proc.stderr) ELSE None,
   stdout |-> Opt(proc.stdout),
   stderr |-> Opt(proc.stderr),
   exit_code |-> Some(proc.returncode)]

UndefinedResult(full_step_text) ==
  [status |-> "undefined",
   output |-> Some(<<"No implementation found for: ">> \o full_step_text),
   stdout |-> None, stderr |-> None, exit_code |-> None]

\* what a call of run_step did: the item selected, the variables and the
\* script handed to execute_shell_script, and the dict returned
Executed(selected, script_content, variables, context, proc) ==
  [selected |-> selected, variables |-> variables, script |-> script_content,
   context |-> context, called |-> TRUE, ran |-> proc.ran, expired |-> proc.expired,
   exited |-> proc.exited, result |-> ExecutedResult(proc)]

Execute(selected, script_content, variables, context, host) ==
  Executed(selected, script_content, variables, context,
           execute_shell_script(script_content, variables, context, host))

RunSelected(selected, step_text, full_step_text, implementations, context, host) ==
  IF selected = 0
  THEN [selected |-> 0, variables |-> <<>>, script |-> <<>>, context |-> context,
        called |-> FALSE, ran |-> FALSE, expired |-> FALSE, exited |-> FALSE,
        result |-> UndefinedResult(full_step_text)]
  ELSE Execute(selected, implementations[selected].script,
               MatchVariables(TryPattern(implementations[selected].pattern,
                                         step_text, full_step_text).groups),
               context, host)

\* with an inherited context the last matching definition is taken
RunLastWithContext(step_text, full_step_text, implementations, context, host) ==
  RunSelected(IF context = <<>>
              THEN SelectDefinition(step_text, full_step_text, implementations)
              ELSE SelectLastDefinition(step_text, full_step_text, implementations),
              step_text, full_step_text, implementations, context, host)

RunFull(step_text, full_step_text, implementations, context, host) ==
  RunSelected(SelectDefinition(step_text, full_step_text, implementations),
              step_text, full_step_text, implementations, context, host)

run_step(step_text, step_keyword, implementations, context, host) ==
  RunFull(step_text, FullStepText(step_text, step_keyword), implementations, context, host)

(***************************************************************************)
(* The inputs of a run: the implementation files named on the command line *)
(* or found in --impl-dir, and the tree the Gherkin parser returns for the *)
(* feature file.                                                           *)
(*   "h" stands for "I have ", "w" for " widgets", "G" / "W" / "T" for the *)
(*   keywords Given / When / Then.                                         *)
(***************************************************************************)
Given == <<"G", " ">>
When == <<"W", " ">>
Then == <<"T", " ">>

TFive == <<"h", "'", "5", "'", "w">>
TNum == <<"h", "'", "n", "'", "w">>
TAb == <<"a", "b">>
TA == <<"a">>

PGivenNum == <<"G", " ", "h", "'", "N", "'", "w">>
PNum == <<"h", "'", "N", "'", "w">>
PWild == <<"h", GroupTok, "w">>
PQuoted == <<"h", "'", GroupTok, "'", "w">>

StepPool ==
  { [keyword |-> Given, text |-> TFive],
    [keyword |-> Given, text |-> TNum],
    [keyword |-> When, text |-> TAb],
    [keyword |-> Then, text |-> TA] }

WidgetFiles ==
  << << TextLine("# widget steps"),
        ImplLine(PGivenNum), TextLine("echo $MATCH_1"),
        TextLine(""),
        ImplLine(<<"a", GroupTok>>), TextLine(Shebang), TextLine("echo $PREVIOUS_STEP_STDOUT"),
        ImplLine(TAb), TextLine("false") >> >>

CaptureFiles ==
  << << ImplLine(<<"[">>), TextLine("true"),
        ImplLine(PQuoted), TextLine("echo $MATCH_1"),
        ImplLine(PWild), TextLine("exit 1") >>,
     << ImplLine(TA), TextLine("true"),
        ImplLine(<<"A", "|", GroupTok, "x", GroupTok>>), TextLine("echo $MATCH_2"),
        TextLine("echo $PREVIOUS_STEP_STDOUT"),
        ImplLine(<<"h", GroupTok>>), TextLine("true") >> >>

TimeoutFiles ==
  << << ImplLine(TA), TextLine("sleep 3600") >>,
     << ImplLine(<<"W", " ", "a", "b">>), TextLine("printf 'Script execution timed out after 60 seconds' >&2"),
        TextLine("exit 124"),
        ImplLine(PNum), TextLine("true") >> >>

DuplicateFiles ==
  << << ImplLine(TAb), TextLine("echo $MATCH_1"),
        ImplLine(TA), TextLine("  "),
        ImplLine(PWild) >>,
     << ImplLine(TAb), TextLine("false"),
        ImplLine(PWild), TextLine("true"), TextLine(""), TextLine("false") >> >>

NoBlockFiles == << << TextLine("echo $MATCH_1") >> >>

ImplFileSets ==
  { <<>>, NoBlockFiles, WidgetFiles, CaptureFiles, TimeoutFiles, DuplicateFiles }

StepSeqs(k) == [1..k -> StepPool]

Child(kind, steps) == [kind |-> kind, steps |-> steps]

\* the lists of at most c scenarios with at most budget steps in all
RECURSIVE ScenarioLists(_, _)
ScenarioLists(c, budget) ==
  IF c = 0 THEN {<<>>}
  ELSE {<<>>} \cup
       UNION { { <<Child("scenario", s)>> \o d :
                   s \in StepSeqs(k), d \in ScenarioLists(c - 1, budget - k) } :
               k \in 0..budget }

\* the steps of a Background are never handed to run_step: one text stands
\* for all of them
BackgroundSeqs(k) == [1..k -> {[keyword |-> Given, text |-> TFive]}]

\* a Background, when there is one, is the first child of the feature
ChildLists ==
  ScenarioLists(MaxChildren, MaxDocSteps) \cup
  UNION { { <<Child("background", s)>> \o d :
              s \in BackgroundSeqs(k), d \in ScenarioLists(MaxChildren - 1, MaxDocSteps - k) } :
          k \in 1..MaxDocSteps }

Documents ==
  { [parsed |-> "error", children |-> <<>>], [parsed |-> "no feature", children |-> <<>>] }
  \cup { [parsed |-> "ok", children |-> c] : c \in ChildLists }

(***************************************************************************)
(* The state of a run.                                                     *)
(***************************************************************************)
VARIABLES
  pc,                \* where main is
  impl_files,        \* input: the implementation files, in order
  host,              \* input: the machine the runner is started on
  spec_files,        \* ea_cli: the content of the spec.yaml of every directory
  last,              \* ea_cli history: the last command and the content before it
  document,          \* what Parser().parse returned for the feature file
  implementations,   \* the dict of load_all_implementations, in insertion order
  results,           \* the dict run_gherkin_file builds and returns
  child,             \* index of the child of the feature being processed
  step,              \* index of the step of the scenario being processed
  scenario_failed,
  scenario_context,
  scenario_result,
  exit_code,         \* the argument of sys.exit, None while main runs
  calls              \* history: what each call of run_step did, in order

vars == <<pc, impl_files, host, spec_files, last, document, implementations, results, child, step,
          scenario_failed, scenario_context, scenario_result, exit_code, calls>>

ZeroSummary ==
  [scenarios |-> [total |-> 0, passed |-> 0, failed |-> 0],
   steps |-> [total |-> 0, passed |-> 0, failed |-> 0, skipped |-> 0, undefined |-> 0]]

NoResults == [error |-> FALSE, counted |-> FALSE, scenarios |-> <<>>, summary |-> ZeroSummary]

NoScenario == [status |-> "passed", steps |-> <<>>]

Unread == [parsed |-> "unread", children |-> <<>>]

Init ==
  /\ pc = "main"
  /\ impl_files \in ImplFileSets
  /\ host \in Hosts
  /\ spec_files = <<>>
  /\ last = <<>>
  /\ document = Unread
  /\ implementations = <<>>
  /\ results = NoResults
  /\ child = 0
  /\ step = 0
  /\ scenario_failed = FALSE
  /\ scenario_context = <<>>
  /\ scenario_result = NoScenario
  /\ exit_code = None
  /\ calls = <<>>

\* main: no implementation file was named or found
MainNoFiles ==
  /\ pc = "main"
  /\ impl_files = <<>>
  /\ exit_code' = Some(1)
  /\ pc' = "exit"
  /\ UNCHANGED <<impl_files, host, spec_files, last, document, implementations, results, child, step,
                 scenario_failed, scenario_context, scenario_result, calls>>

\* main: the files are loaded; no IMPLEMENTS block in any of them ends the run
MainLoad ==
  /\ pc = "main"
  /\ impl_files # <<>>
  /\ implementations' = load_all_implementations(impl_files)
  /\ IF implementations' = <<>>
     THEN exit_code' = Some(1) /\ pc' = "exit"
     ELSE exit_code' = exit_code /\ pc' = "parse"
  /\ UNCHANGED <<impl_files, host, spec_files, last, document, results, child, step,
                 scenario_failed, scenario_context, scenario_result, calls>>

\* a document that does not parse is reported as a run without scenarios
EmptyReport ==
  [error |-> FALSE, counted |-> TRUE, scenarios |-> <<>>, summary |-> ZeroSummary]

\* {'error': str(e), 'summary': {}}
ErrorResults ==
  [error |-> TRUE, counted |-> FALSE, scenarios |-> <<>>, summary |-> ZeroSummary]

\* run_gherkin_file: the feature file does not parse or holds no feature; the
\* except clause returns {'error': ..., 'summary': {}}
ParseFails ==
  /\ pc = "parse"
  /\ document' \in {d \in Documents : d.parsed # "ok"}
  /\ results' = ErrorResults
  /\ pc' = "report"
  /\ UNCHANGED <<impl_files, host, spec_files, last, implementations, child, step,
                 scenario_failed, scenario_context, scenario_result, exit_code, calls>>

\* run_gherkin_file: the feature is parsed and the results dict created
ParseOk ==
  /\ pc = "parse"
  /\ document' \in {d \in Documents : d.parsed = "ok"}
  /\ results' = [error |-> FALSE, counted |-> TRUE, scenarios |-> <<>>,
                 summary |-> ZeroSummary]
  /\ child' = 1
  /\ pc' = "child"
  /\ UNCHANGED <<impl_files, host, spec_files, last, implementations, step,
                 scenario_failed, scenario_context, scenario_result, exit_code, calls>>

\* the loop over the children ends with the first failed scenario
NextChildUnlessFailed ==
  IF scenario_result.status = "failed" THEN Len(document.children) + 1 ELSE child + 1

\* for child in feature.get('children', []): the loop goes on to the next child
NextChild == child + 1

\* for child in feature.get('children'): a child that is no scenario is passed over
SkipChild ==
  /\ pc = "child"
  /\ child <= Len(document.children)
  /\ document.children[child].kind # "scenario"
  /\ child' = NextChild
  /\ UNCHANGED <<pc, impl_files, host, spec_files, last, document, implementations, results, step,
                 scenario_failed, scenario_context, scenario_result, exit_code, calls>>

\* the context of the scenario before is kept
CarriedContext == scenario_context

\* scenario_context = {}
FreshContext == <<>>

\* a scenario starts
BeginScenario ==
  /\ pc = "child"
  /\ child <= Len(document.children)
  /\ document.children[child].kind = "scenario"
  /\ scenario_result' = NoScenario
  /\ results' = [results EXCEPT !.summary.scenarios.total = @ + 1]
  /\ scenario_failed' = FALSE
  /\ scenario_context' = FreshContext
  /\ step' = 1
  /\ pc' = "step"
  /\ UNCHANGED <<impl_files, host, spec_files, last, document, implementations, child, exit_code, calls>>

CurrentStep == document.children[child].steps[step]

\* the result carries the text with its keyword
StepResultFullText(keyword, text, r) ==
  [keyword |-> keyword, text |-> keyword \o <<" ">> \o text, status |-> r.status,
   output |-> r.output, stdout |-> r.stdout, stderr |-> r.stderr,
   exit_code |-> r.exit_code]

StepResult(keyword, text, r) ==
  [keyword |-> keyword, text |-> text, status |-> r.status, output |-> r.output,
   stdout |-> r.stdout, stderr |-> r.stderr, exit_code |-> r.exit_code]

SkippedResult(keyword, text) ==
  [keyword |-> keyword, text |-> text, status |-> "skipped", output |-> None,
   stdout |-> None, stderr |-> None, exit_code |-> None]

\* one turn of the step loop after a failure: the step is skipped
SkipStep ==
  /\ pc = "step"
  /\ step <= Len(document.children[child].steps)
  /\ scenario_failed
  /\ LET step_keyword == Strip(CurrentStep.keyword)
         step_text == CurrentStep.text
     IN  /\ scenario_result' =
              [scenario_result EXCEPT
                 !.steps = Append(@, SkippedResult(step_keyword, step_text))]
         /\ results' = [results EXCEPT !.summary.steps.total = @ + 1,
                                       !.summary.steps.skipped = @ + 1]
  /\ step' = step + 1
  /\ UNCHANGED <<pc, impl_files, host, spec_files, last, document, implementations, child,
                 scenario_failed, scenario_context, exit_code, calls>>

\* an undefined step is tallied as undefined and as failed
CountStepUndefinedTwice(summary, status) ==
  LET total == [summary EXCEPT !.steps.total = @ + 1]
  IN  CASE status = "passed" -> [total EXCEPT !.steps.passed = @ + 1]
        [] status = "failed" -> [total EXCEPT !.steps.failed = @ + 1]
        [] status = "undefined" -> [total EXCEPT !.steps.undefined = @ + 1,
                                                 !.steps.failed = @ + 1]
        [] OTHER -> total

\* an undefined step is tallied in the total alone
CountStepWithoutUndefined(summary, status) ==
  LET total == [summary EXCEPT !.steps.total = @ + 1]
  IN  CASE status = "passed" -> [total EXCEPT !.steps.passed = @ + 1]
        [] status = "failed" -> [total EXCEPT !.steps.failed = @ + 1]
        [] OTHER -> total

\* undefined steps tallied with the failed ones
CountStepUndefinedAsFailed(summary, status) ==
  LET total == [summary EXCEPT !.steps.total = @ + 1]
  IN  CASE status = "passed" -> [total EXCEPT !.steps.passed = @ + 1]
        [] OTHER -> [total EXCEPT !.steps.failed = @ + 1]

\* the counters of the summary after a step of the given status was run
CountStep(summary, status) ==
  LET total == [summary EXCEPT !.steps.total = @ + 1]
  IN  CASE status = "passed" -> [total EXCEPT !.steps.passed = @ + 1]
        [] status = "failed" -> [total EXCEPT !.steps.failed = @ + 1]
        [] status = "undefined" -> [total EXCEPT !.steps.undefined = @ + 1]
        [] OTHER -> total

\* scenario_context after a passed step
NextContext(context, r) ==
  IF r.status = "passed" /\ r.stdout # None
  THEN [k \in (DOMAIN context) \cup {"PREVIOUS_STEP_STDOUT"} |->
          IF k = "PREVIOUS_STEP_STDOUT" THEN Strip(r.stdout[1]) ELSE context[k]]
  ELSE context

\* every step ends the scenario
FailsAlways(r) == TRUE

\* only a failed script ends the scenario
FailsOnlyIfFailed(r) == r.status = "failed"

\* the else branch of `if step_result['status'] == 'passed'` is taken
FailsScenario(r) == r.status # "passed"

\* the status is set only for a failed script
StatusOnlyIfFailed(status, r) == IF r.status = "failed" THEN "failed" ELSE status

\* scenario_result['status'] after the step
ScenarioStatus(status, r) == IF r.status # "passed" THEN "failed" ELSE status

CallRecord(step_keyword, step_text, call) ==
  [child |-> child, step |-> step, keyword |-> step_keyword, text |-> step_text,
   selected |-> call.selected, variables |-> call.variables, script |-> call.script,
   context |-> call.context, called |-> call.called, ran |-> call.ran,
   expired |-> call.expired, exited |-> call.exited, result |-> call.result]

\* the else branch of the step loop, given what run_step did and returned;
\* the sys.exit(1) of find_bash_executable ends the process inside run_step
AfterRunStep(step_keyword, step_text, call, r) ==
  /\ calls' = Append(calls, CallRecord(step_keyword, step_text, call))
  /\ IF call.exited
     THEN /\ exit_code' = Some(1)
          /\ pc' = "fatal"
          /\ results' = [results EXCEPT !.summary.steps.total = @ + 1]
          /\ UNCHANGED <<scenario_context, scenario_failed, scenario_result, step>>
     ELSE /\ results' = [results EXCEPT !.summary = CountStep(@, r.status)]
          /\ scenario_context' = NextContext(scenario_context, r)
          /\ scenario_failed' = FailsScenario(r)
          /\ scenario_result' =
               [scenario_result EXCEPT
                  !.status = ScenarioStatus(@, r),
                  !.steps = Append(@, StepResult(step_keyword, step_text, r))]
          /\ step' = step + 1
          /\ UNCHANGED <<exit_code, pc>>

CallRunStep(step_keyword, step_text, call) ==
  AfterRunStep(step_keyword, step_text, call, call.result)

\* one turn of the step loop while the scenario has not failed: run_step
RunStep ==
  /\ pc = "step"
  /\ step <= Len(document.children[child].steps)
  /\ ~scenario_failed
  /\ CallRunStep(Strip(CurrentStep.keyword), CurrentStep.text,
                 run_step(CurrentStep.text, Strip(CurrentStep.keyword),
                          implementations, scenario_context, host))
  /\ UNCHANGED <<impl_files, host, spec_files, last, document, implementations, child>>

\* the steps of the scenario are exhausted: it is counted and appended
EndScenario ==
  /\ pc = "step"
  /\ step > Len(document.children[child].steps)
  /\ results' =
       [results EXCEPT
          !.summary.scenarios.passed =
             IF scenario_result.status = "passed" THEN @ + 1 ELSE @,
          !.summary.scenarios.failed =
             IF scenario_result.status = "passed" THEN @ ELSE @ + 1,
          !.scenarios = Append(@, scenario_result)]
  /\ child' = NextChild
  /\ pc' = "child"
  /\ UNCHANGED <<impl_files, host, spec_files, last, document, implementations, step,
                 scenario_failed, scenario_context, scenario_result, exit_code, calls>>

\* the children are exhausted: run_gherkin_file returns results
ReturnResults ==
  /\ pc = "child"
  /\ child > Len(document.children)
  /\ pc' = "report"
  /\ UNCHANGED <<impl_files, host, spec_files, last, document, implementations, results, child, step,
                 scenario_failed, scenario_context, scenario_result, exit_code, calls>>

\* results.get('summary', {}).get('scenarios', {}).get('failed', 0)
FailedScenarios(res) == IF res.counted THEN res.summary.scenarios.failed ELSE 0

\* the exit code taken from the failed steps
ExitCodeFromSteps(res) ==
  IF res.error \/ (res.counted /\ res.summary.steps.failed > 0) THEN 1 ELSE 0

ExitCode(res) == IF res.error \/ FailedScenarios(res) > 0 THEN 1 ELSE 0

\* main: the report is printed and the process exits
MainExit ==
  /\ pc = "report"
  /\ exit_code' = Some(ExitCode(results))
  /\ pc' = "exit"
  /\ UNCHANGED <<impl_files, host, spec_files, last, document, implementations, results, child, step,
                 scenario_failed, scenario_context, scenario_result, calls>>

Next ==
  \/ MainNoFiles
  \/ MainLoad
  \/ ParseFails
  \/ ParseOk
  \/ SkipChild
  \/ BeginScenario
  \/ SkipStep
  \/ RunStep
  \/ EndScenario
  \/ ReturnResults
  \/ MainExit

Spec == Init /\ [][Next]_vars

(***************************************************************************)
(* ea_cli.py: the commands link and unlink.  An artifact path is a         *)
(* directory name and a file name; the spec.yaml of a directory maps file  *)
(* names to entries, and an entry maps relationship keys to lists of       *)
(* target paths.                                                           *)
(***************************************************************************)
ARTIFACT_CONFIG ==
  [principle |-> "principles", rule |-> "rules", domain |-> "domains",
   verification |-> "verifications"]

\* the items of RELATIONSHIP_MAP[source type], in their order
RELATIONSHIP_MAP ==
  [principle |-> << [key |-> "supported_by_rules", type |-> "rule"],
                    [key |-> "verified_by", type |-> "verification"] >>,
   rule |-> << [key |-> "supports_principles", type |-> "principle"],
               [key |-> "verified_by", type |-> "verification"] >>,
   domain |-> << [key |-> "governed_by_principles", type |-> "principle"] >>]

\* str.rstrip('s') on the directory names that occur
RStripS(dir_name) ==
  CASE dir_name \in {"principles", "principle"} -> "principle"
    [] dir_name \in {"rules", "rule"} -> "rule"
    [] dir_name \in {"domains", "domain"} -> "domain"
    [] dir_name \in {"verifications", "verification"} -> "verification"
    [] OTHER -> dir_name

PathOf(dir_name, filename) == [dir |-> dir_name, name |-> filename]

get_artifact_path(path_str) ==
  IF RStripS(path_str.dir) \in DOMAIN ARTIFACT_CONFIG
  THEN Some(PathOf(ARTIFACT_CONFIG[RStripS(path_str.dir)], path_str.name))
  ELSE None

\* the artifact files on disk; link and unlink create and delete none
ExistingFiles ==
  { PathOf("principles", "P1"), PathOf("rules", "R1"), PathOf("rules", "R2"),
    PathOf("verifications", "V1") }

\* the path strings given on the command line
PathStrings ==
  { PathOf("principles", "P1"), PathOf("rules", "R1"), PathOf("rule", "R1"),
    PathOf("rules", "R2"), PathOf("rules", "R0"), PathOf("verifications", "V1"),
    PathOf("bogus", "X") }

\* the for loop over valid_relations.items(): the first key whose value is
\* the target type
RECURSIVE FirstRelation(_, _)
FirstRelation(items, target_type) ==
  IF items = <<>> THEN None
  ELSE IF Head(items).type = target_type THEN Some(Head(items).key)
  ELSE FirstRelation(Tail(items), target_type)

RelationshipKey(source_type, target_type) ==
  IF source_type \in DOMAIN RELATIONSHIP_MAP
  THEN FirstRelation(RELATIONSHIP_MAP[source_type], target_type)
  ELSE None

Elements(list) == {list[i] : i \in 1..Len(list)}

\* entry.get(key, [])
LinksOf(entry, key) == IF key \in DOMAIN entry THEN entry[key] ELSE <<>>

\* entry[key] = links
WithLinks(entry, key, links) ==
  [k \in (DOMAIN entry) \cup {key} |-> IF k = key THEN links ELSE entry[k]]

\* list.remove(target): the first occurrence is taken out
RemoveFirst(list, target) ==
  LET i == CHOOSE k \in 1..Len(list) :
             list[k] = target /\ \A j \in 1..(k - 1) : list[j] # target
  IN  SubSeq(list, 1, i - 1) \o SubSeq(list, i + 1, Len(list))

\* save_spec on the directory of the source
Saved(files, source_path, entry) ==
  [files EXCEPT ![source_path.dir] = [@ EXCEPT ![source_path.name] = entry]]

Exit1(files) == [files |-> files, code |-> 1]

\* the target is appended without looking for it in the list
LinkAlways(files, source_path, key, target_str, links) ==
  [files |-> Saved(files, source_path,
                   WithLinks(files[source_path.dir][source_path.name], key,
                             Append(links, target_str))),
   code |-> 0]

\* the tail of link: the list of the key, created when missing, gets the
\* target unless it holds it already
LinkInto(files, source_path, key, target_str, links) ==
  IF target_str \notin Elements(links)
  THEN [files |-> Saved(files, source_path,
                        WithLinks(files[source_path.dir][source_path.name], key,
                                  Append(links, target_str))),
        code |-> 0]
  ELSE [files |-> files, code |-> 0]

UnlinkFrom(files, source_path, key, target_str, links) ==
  IF target_str \in Elements(links)
  THEN [files |-> Saved(files, source_path,
                        WithLinks(files[source_path.dir][source_path.name], key,
                                  RemoveFirst(links, target_str))),
        code |-> 0]
  ELSE [files |-> files, code |-> 0]

LinkPaths(files, source_path, target_path, relationship_key) ==
  IF relationship_key = None THEN Exit1(files)
  ELSE IF source_path.name \notin DOMAIN files[source_path.dir] THEN Exit1(files)
  ELSE LinkInto(files, source_path, relationship_key[1], target_path,
                LinksOf(files[source_path.dir][source_path.name], relationship_key[1]))

UnlinkPaths(files, source_path, target_path, relationship_key) ==
  IF relationship_key = None THEN Exit1(files)
  ELSE IF source_path.name \notin DOMAIN files[source_path.dir] THEN Exit1(files)
  ELSE UnlinkFrom(files, source_path, relationship_key[1], target_path,
                  LinksOf(files[source_path.dir][source_path.name], relationship_key[1]))

\* the command link: the spec files after it and the exit code
link(files, source, target) ==
  IF get_artifact_path(source) = None \/ get_artifact_path(target) = None
  THEN Exit1(files)
  ELSE IF get_artifact_path(source)[1] \notin ExistingFiles THEN Exit1(files)
  ELSE IF get_artifact_path(target)[1] \notin ExistingFiles THEN Exit1(files)
  ELSE LinkPaths(files, get_artifact_path(source)[1], get_artifact_path(target)[1],
                 RelationshipKey(RStripS(get_artifact_path(source)[1].dir),
                                 RStripS(get_artifact_path(target)[1].dir)))

\* the command unlink: the file of the target need not exist
unlink(files, source, target) ==
  IF get_artifact_path(source) = None THEN Exit1(files)
  ELSE IF get_artifact_path(source)[1] \notin ExistingFiles THEN Exit1(files)
  ELSE IF get_artifact_path(target) = None THEN Exit1(files)
  ELSE UnlinkPaths(files, get_artifact_path(source)[1], get_artifact_path(target)[1],
                   RelationshipKey(RStripS(get_artifact_path(source)[1].dir),
                                   RStripS(get_artifact_path(target)[1].dir)))

NoEntry == << >>

\* spec files whose artifacts have no relationship yet; R2 has a file but no
\* entry in rules/spec.yaml
UnlinkedSpecFiles ==
  [principles |-> [P1 |-> NoEntry], rules |-> [R1 |-> NoEntry],
   domains |-> << >>, verifications |-> [V1 |-> NoEntry]]

\* spec files with a link to a rule whose file is gone and with an empty list
LinkedSpecFiles ==
  [principles |-> [P1 |-> [supported_by_rules |-> <<PathOf("rules", "R0")>>]],
   rules |-> [R1 |-> [verified_by |-> << >>]],
   domains |-> << >>, verifications |-> [V1 |-> NoEntry]]

Command(op, source, target, before, result) ==
  [op |-> op, source |-> source, target |-> target, before |-> before,
   code |-> result.code]

runner_vars == <<pc, impl_files, host, document, implementations, results, child, step,
                 scenario_failed, scenario_context, scenario_result, exit_code, calls>>

LinkInit ==
  /\ spec_files \in {UnlinkedSpecFiles, LinkedSpecFiles}
  /\ last = <<>>
  /\ pc = "ea_cli"
  /\ impl_files = <<>>
  /\ host = [platform |-> "linux", bash |-> TRUE]
  /\ document = Unread
  /\ implementations = <<>>
  /\ results = NoResults
  /\ child = 0
  /\ step = 0
  /\ scenario_failed = FALSE
  /\ scenario_context = <<>>
  /\ scenario_result = NoScenario
  /\ exit_code = None
  /\ calls = <<>>

Ran(op, source, target, result) ==
  /\ spec_files' = result.files
  /\ last' = <<Command(op, source, target, spec_files, result)>>
  /\ UNCHANGED runner_vars

Link ==
  \E source, target \in PathStrings :
    /\ pc = "ea_cli"
    /\ Ran("link", source, target, link(spec_files, source, target))

Unlink ==
  \E source, target \in PathStrings :
    /\ pc = "ea_cli"
    /\ Ran("unlink", source, target, unlink(spec_files, source, target))

LinkNext == Link \/ Unlink

LinkSpec == LinkInit /\ [][LinkNext]_vars

(***************************************************************************)
(* Properties.                                                             *)
(***************************************************************************)

\* the ScenarioResults built so far: those appended to the report and, while a
\* scenario runs, the one under construction
AllScenarioResults ==
  {results.scenarios[k] : k \in 1..Len(results.scenarios)}
  \cup (IF pc = "step" THEN {scenario_result} ELSE {})

Statuses(sr) == [i \in 1..Len(sr.steps) |-> sr.steps[i].status]

\* C1: in every scenario, a step that ends failed, timeout or undefined is
\* followed only by skipped steps.
C1_FailFastSkips ==
  \A sr \in AllScenarioResults :
    \A i \in 1..Len(sr.steps) :
      sr.steps[i].status \in {"failed", "timeout", "undefined"} =>
        \A j \in (i + 1)..Len(sr.steps) : sr.steps[j].status = "skipped"

\* a scenario of the report whose steps ended passed, failed, skipped
C1_Witness ==
  \E k \in 1..Len(results.scenarios) :
    Statuses(results.scenarios[k]) = <<"passed", "failed", "skipped">>

\* C2: a ScenarioResult of the report is passed exactly when all of its steps
\* are passed (one without steps is passed), and failed otherwise.
C2_ScenarioStatus ==
  \A k \in 1..Len(results.scenarios) :
    LET sr == results.scenarios[k]
    IN  /\ sr.status \in {"passed", "failed"}
        /\ sr.status = "passed" <=>
             \A i \in 1..Len(sr.steps) : sr.steps[i].status = "passed"

\* a report with a passed scenario without steps and a failed scenario whose
\* first step passed and whose second step was undefined
C2_Witness ==
  /\ \E k \in 1..Len(results.scenarios) :
       results.scenarios[k].steps = <<>> /\ results.scenarios[k].status = "passed"
  /\ \E k \in 1..Len(results.scenarios) :
       /\ Statuses(results.scenarios[k]) = <<"passed", "undefined">>
       /\ results.scenarios[k].status = "failed"

\* calls only grows and the definitions, the host and a call once recorded
\* never change: every call is the last of calls in the state that run_step
\* returns into (the step loop with the result of the call appended, or the
\* exit of the process), so what holds of the last call in these states
\* holds of every call of every run
NewestCall ==
  IF \/ pc = "fatal"
     \/ /\ pc = "step"
        /\ scenario_result.steps # <<>>
        /\ scenario_result.steps[Len(scenario_result.steps)].status # "skipped"
  THEN {Len(calls)} ELSE {}

\* the pattern matches the bare step text or the text with its keyword
PatternMatches(pattern, text, keyword) ==
  \/ ReMatch(Anchored(pattern), text).ok
  \/ ReMatch(Anchored(pattern), Strip(keyword \o <<" ">> \o text)).ok

\* C3: run_step selects the first definition, in the order of the loaded
\* definitions, whose pattern matches the bare text or "<keyword> <text>": the
\* selected one matches, none before it does, and its script is the one run.
C3_FirstMatchWins ==
  \A n \in NewestCall :
    LET c == calls[n]
    IN  c.selected # 0 =>
          /\ c.selected \in 1..Len(implementations)
          /\ PatternMatches(implementations[c.selected].pattern, c.text, c.keyword)
          /\ \A j \in 1..(c.selected - 1) :
               ~PatternMatches(implementations[j].pattern, c.text, c.keyword)
          /\ c.called
          /\ c.script = implementations[c.selected].script

\* a call that selected the second definition although a later one matches too
C3_Witness ==
  \E n \in 1..Len(calls) :
    /\ calls[n].selected = 2
    /\ \E j \in 3..Len(implementations) :
         /\ PatternMatches(implementations[j].pattern, calls[n].text, calls[n].keyword)
         /\ implementations[j].script # implementations[2].script

HasPattern(pattern) ==
  \E i \in 1..Len(implementations) : implementations[i].pattern = pattern

\* C4: the quoted literal of a pattern is a placeholder: with the definition
\* `I have 'NUM' widgets` loaded, the step text `I have '5' widgets` is matched
\* by that definition and the capture is "5".
C4_PlaceholderCapture ==
  \A n \in 1..Len(calls) :
    (calls[n].text = TFive /\ HasPattern(PNum)) =>
      /\ calls[n].selected # 0
      /\ calls[n].variables = [k \in {"MATCH_1"} |-> <<"5">>]

\* C5: with the definition `Given I have 'NUM' widgets` and the script
\* `echo $MATCH_1` loaded first, the step `Given I have '5' widgets` passes, runs
\* with MATCH_1 bound to the capture, and its captured stdout is 5.
C5_WidgetsEndToEnd ==
  \A n \in 1..Len(calls) :
    ( /\ calls[n].keyword = <<"G">>
      /\ calls[n].text = TFive
      /\ implementations[1].pattern = PGivenNum
      /\ Head(implementations[1].script) = "echo $MATCH_1" ) =>
      /\ calls[n].result.status = "passed"
      /\ calls[n].variables = [k \in {"MATCH_1"} |-> <<"5">>]
      /\ calls[n].result.stdout # None
      /\ Strip(calls[n].result.stdout[1]) = <<"5">>

\* step results are only appended, to the scenario under construction, and
\* never changed: what holds of the one just appended, in every state, holds
\* of every step result of every run
NewestStep ==
  IF pc = "step" /\ scenario_result.steps # <<>>
  THEN {Len(scenario_result.steps)} ELSE {}

NoDefinitionMatches(text, keyword) ==
  \A i \in 1..Len(implementations) :
    ~PatternMatches(implementations[i].pattern, text, keyword)

\* C6: a step that is not skipped is undefined exactly when no loaded
\* definition matches its text or "<keyword> <text>"; an undefined step fails
\* its scenario and every later step of the scenario is skipped.
C6_UndefinedStep ==
  /\ \A i \in NewestStep :
       scenario_result.steps[i].status # "skipped" =>
         (scenario_result.steps[i].status = "undefined" <=>
            NoDefinitionMatches(scenario_result.steps[i].text,
                                scenario_result.steps[i].keyword))
  /\ \A sr \in AllScenarioResults :
       \A i \in 1..Len(sr.steps) :
         sr.steps[i].status = "undefined" =>
           /\ sr.status = "failed"
           /\ \A j \in (i + 1)..Len(sr.steps) : sr.steps[j].status = "skipped"

\* a scenario whose only step failed and is matched by no pattern without its
\* keyword, and a scenario with an undefined step
\* followed by a skipped one
C6_Witness ==
  /\ \E k \in 1..Len(results.scenarios) :
       /\ Statuses(results.scenarios[k]) = <<"failed">>
       /\ ~\E i \in 1..Len(implementations) :
             ReMatch(Anchored(implementations[i].pattern),
                     results.scenarios[k].steps[1].text).ok
  /\ \E k \in 1..Len(results.scenarios) :
       /\ Statuses(results.scenarios[k]) = <<"undefined", "skipped">>
       /\ results.scenarios[k].status = "failed"

\* C7: the result of a script that ran into the timeout is not undefined and
\* differs, in the fields of the report, from the result of every script that
\* ended by itself with a non-zero exit code.
C7_TimeoutDistinguished ==
  \A n \in 1..Len(calls) :
    calls[n].expired =>
      /\ calls[n].result.status # "undefined"
      /\ \A m \in 1..Len(calls) :
           ( /\ calls[m].called
             /\ ~calls[m].expired
             /\ calls[m].result.exit_code # Some(0) ) =>
             calls[m].result # calls[n].result

CountSteps(sr, status) ==
  Cardinality({i \in 1..Len(sr.steps) : sr.steps[i].status = status})

RECURSIVE SumSteps(_, _)
SumSteps(scenarios, status) ==
  IF scenarios = <<>> THEN 0
  ELSE CountSteps(Head(scenarios), status) + SumSteps(Tail(scenarios), status)

RECURSIVE SumLengths(_)
SumLengths(scenarios) ==
  IF scenarios = <<>> THEN 0
  ELSE Len(Head(scenarios).steps) + SumLengths(Tail(scenarios))

CountScenarios(scenarios, status) ==
  Cardinality({k \in 1..Len(scenarios) : scenarios[k].status = status})

\* the summary counted from the tree of scenario and step results
Recount(scenarios) ==
  [scenarios |-> [total |-> Len(scenarios),
                  passed |-> CountScenarios(scenarios, "passed"),
                  failed |-> CountScenarios(scenarios, "failed")],
   steps |-> [total |-> SumLengths(scenarios),
              passed |-> SumSteps(scenarios, "passed"),
              failed |-> SumSteps(scenarios, "failed"),
              skipped |-> SumSteps(scenarios, "skipped"),
              undefined |-> SumSteps(scenarios, "undefined")]]

\* C8: when run_gherkin_file returns without an error, the summary counted
\* from the final tree equals the summary accumulated during the run.
C8_SummaryRecount ==
  (pc \in {"report", "exit"} /\ results.counted) =>
    Recount(results.scenarios) = results.summary

\* a returned report of two scenarios with passed, undefined and skipped steps
C8_Witness ==
  /\ pc = "report"
  /\ results.counted
  /\ Len(results.scenarios) = 2
  /\ results.summary.steps.passed = 1
  /\ results.summary.steps.undefined = 1
  /\ results.summary.steps.skipped = 1

\* C9: once the implementations are loaded and the document is parsed, main
\* exits with 0 exactly when the summary has no failed scenario and no
\* undefined step, and with 1 otherwise.
C9_ExitCode ==
  (pc = "exit" /\ results.counted) =>
    /\ exit_code \in {Some(0), Some(1)}
    /\ exit_code = Some(0) <=>
         /\ results.summary.scenarios.failed = 0
         /\ results.summary.steps.undefined = 0

\* an exit with 1 after a run whose only non-passed steps are undefined
C9_Witness ==
  /\ pc = "exit"
  /\ results.counted
  /\ exit_code = Some(1)
  /\ results.summary.steps.undefined > 0
  /\ results.summary.steps.failed = 0
  /\ results.summary.steps.passed > 0

\* C10: main exits with a code other than 0 and 1 when no implementation file
\* is found, and with another code other than 0 and 1 when the feature
\* document does not parse.
C10_DistinctExitCodes ==
  pc = "exit" =>
    /\ impl_files = <<>> => exit_code \notin {Some(0), Some(1)}
    /\ results.error => exit_code \notin {Some(0), Some(1)}

\* the CompletedProcess the executor returns for the script, the variables and
\* the context of a call on the host of the run
ProcessOf(c) == execute_shell_script(c.script, c.variables, c.context, host)

\* C11: the result of every step that was handed to the executor is passed
\* exactly when its recorded exit_code is zero and failed otherwise, and its
\* stdout and stderr are those of the CompletedProcess (None for an empty one).
C11_StatusFromExitCode ==
  \A n \in NewestCall :
    LET c == calls[n]
    IN  (c.called /\ ~c.exited) =>
          /\ c.result.status \in {"passed", "failed"}
          /\ c.result.exit_code = Some(ProcessOf(c).returncode)
          /\ c.result.status = "passed" <=> c.result.exit_code = Some(0)
          /\ c.result.stdout = Opt(ProcessOf(c).stdout)
          /\ c.result.stderr = Opt(ProcessOf(c).stderr)

\* a script that ended with exit code 0 and a script that wrote to stderr and
\* ended by itself with an exit code other than 0 and 1
C11_Witness ==
  /\ \E n \in 1..Len(calls) :
       /\ calls[n].ran
       /\ calls[n].result.status = "passed"
       /\ calls[n].result.exit_code = Some(0)
  /\ \E n \in 1..Len(calls) :
       /\ calls[n].ran
       /\ ~calls[n].expired
       /\ calls[n].result.status = "failed"
       /\ calls[n].result.exit_code \notin {Some(0), Some(1)}
       /\ calls[n].result.stderr # None

\* C12: the first step of every scenario that reaches run_step is run with an
\* empty inherited context, whatever the scenarios before it left behind.
C12_NoContextLeak ==
  \A n \in 1..Len(calls) : calls[n].step = 1 => calls[n].context = <<>>

\* the first step of a later scenario is run after a step of an earlier
\* scenario passed with output and set PREVIOUS_STEP_STDOUT
C12_Witness ==
  \E m, n \in 1..Len(calls) :
    /\ m < n
    /\ calls[m].child < calls[n].child
    /\ calls[m].result.status = "passed"
    /\ calls[m].result.stdout # None
    /\ calls[n].step = 1
    /\ calls[n].called

IsScenario(c) == c.kind = "scenario"

\* the scenarios of the document, in document order
ScenarioChildren(doc) == SelectSeq(doc.children, IsScenario)

\* the ScenarioResult reports every step of the scenario, in order
ReportsScenario(sr, scenario) ==
  /\ Len(sr.steps) = Len(scenario.steps)
  /\ \A i \in 1..Len(sr.steps) :
       /\ sr.steps[i].text = scenario.steps[i].text
       /\ sr.steps[i].keyword = Strip(scenario.steps[i].keyword)

\* C13: no failed, timed-out or undefined step stops the run: when
\* run_gherkin_file has returned for a parsed document, the report holds one
\* ScenarioResult per scenario of the document, in document order, each with
\* all of its steps; the run ends early only where no interpreter is found.
C13_EveryScenarioReported ==
  /\ (pc \in {"report", "exit"} /\ results.counted) =>
       /\ Len(results.scenarios) = Len(ScenarioChildren(document))
       /\ \A k \in 1..Len(results.scenarios) :
            ReportsScenario(results.scenarios[k], ScenarioChildren(document)[k])
  /\ pc = "fatal" => find_bash_executable(host) = None

\* a report whose first scenario failed with a timed-out step followed by a
\* skipped one and whose second scenario passed
C13_Witness ==
  /\ pc = "report"
  /\ Len(results.scenarios) = 2
  /\ Statuses(results.scenarios[1]) = <<"failed", "skipped">>
  /\ \E n \in 1..Len(calls) : calls[n].expired
  /\ Statuses(results.scenarios[2]) = <<"passed">>

ImplementsLines(file) == {i \in 1..Len(file) : file[i].implements}

BlockEnd(file, i) ==
  IF \E j \in ImplementsLines(file) : j > i
  THEN (CHOOSE j \in ImplementsLines(file) :
          j > i /\ \A k \in ImplementsLines(file) : k > i => j <= k) - 1
  ELSE Len(file)

BlockLines(file, i) == [k \in 1..(BlockEnd(file, i) - i) |-> file[i + k].text]

\* the blocks of the pattern that the loader registers, as <<file, line>>
BlocksOf(files, pattern) ==
  UNION { { <<f, i>> : i \in { j \in ImplementsLines(files[f]) :
                                 /\ files[f][j].pattern = pattern
                                 /\ BlockLines(files[f], j) # <<>> } } :
          f \in 1..Len(files) }

Earlier(a, b) == a[1] < b[1] \/ (a[1] = b[1] /\ a[2] <= b[2])

FirstBlockOf(files, pattern) ==
  CHOOSE a \in BlocksOf(files, pattern) : \A b \in BlocksOf(files, pattern) : Earlier(a, b)

\* C15: when several blocks of the loaded files have the same pattern text,
\* the script run for a step that selects the pattern is the script of the
\* first of these blocks, in the order of the files and of their lines.
C15_FirstRegisteredWins ==
  \A n \in 1..Len(calls) :
    calls[n].selected # 0 =>
      LET first == FirstBlockOf(impl_files, implementations[calls[n].selected].pattern)
      IN  calls[n].script =
            clean_script_content(BlockLines(impl_files[first[1]], first[2]))

\* C16: on a host without a usable bash the run ends before any step runs: no
\* step result is produced and no scenario is reported as failed.
C16_NoShellAborts ==
  ~host.bash =>
    /\ \A sr \in AllScenarioResults : sr.steps = <<>>
    /\ \A k \in 1..Len(results.scenarios) : results.scenarios[k].status # "failed"

Compiles(pattern) == ~ReError(Anchored(pattern))

\* C17: a definition whose pattern does not compile is never selected, and it
\* hides no other definition: a step matched by a definition that compiles is
\* given to that definition or to one before it.
C17_InvalidPatternSkipped ==
  \A n \in NewestCall :
    /\ calls[n].selected # 0 => Compiles(implementations[calls[n].selected].pattern)
    /\ \A j \in 1..Len(implementations) :
         ( /\ calls[n].selected \notin 1..j
           /\ Compiles(implementations[j].pattern) ) =>
           ~PatternMatches(implementations[j].pattern, calls[n].text, calls[n].keyword)

\* a step given to a definition that stands after one that does not compile
C17_Witness ==
  \E n \in 1..Len(calls) :
    /\ calls[n].selected > 1
    /\ calls[n].called
    /\ \E j \in 1..(calls[n].selected - 1) : ~Compiles(implementations[j].pattern)

\* the whole of the text is matched by one alternative of the pattern
WholeMatch(pattern, text) ==
  /\ Compiles(pattern)
  /\ \E k \in 1..Len(SplitAlt(pattern)) :
       MatchHere(Anchored(SplitAlt(pattern)[k]), text, 1).ok

\* C18: a definition is selected only when its pattern, letter case aside,
\* matches the whole of the step text or of "<keyword> <text>"; a pattern that
\* matches only a prefix, among them one with a top-level alternation, is not
\* selected.
C18_WholeStringMatch ==
  \A n \in 1..Len(calls) :
    calls[n].selected # 0 =>
      \/ WholeMatch(implementations[calls[n].selected].pattern, calls[n].text)
      \/ WholeMatch(implementations[calls[n].selected].pattern,
                    FullStepText(calls[n].text, calls[n].keyword))

\* the ScenarioResults in the order of their scenarios, the one under
\* construction last
ScenarioResultsSoFar ==
  results.scenarios \o (IF pc \in {"step", "fatal"} THEN <<scenario_result>> ELSE <<>>)

\* the child of the document that is its k-th scenario
ScenarioIndex(doc, k) ==
  CHOOSE c \in 1..Len(doc.children) :
    /\ IsScenario(doc.children[c])
    /\ Cardinality({d \in 1..c : IsScenario(doc.children[d])}) = k

\* the calls in which execute_shell_script returned a CompletedProcess
Executions == {n \in 1..Len(calls) : calls[n].called /\ ~calls[n].exited}

\* the calls of run_step that returned
Returned == {n \in 1..Len(calls) : ~calls[n].exited}

\* C19: no skipped and no undefined step executes a script: the executor is
\* invoked as often as there are passed or failed step results, an undefined
\* result comes from a call that did not reach the executor, run_step is
\* called as often as there are results other than skipped, and no call of
\* run_step is made for a step that was skipped.
C19_NoExecutionWithoutMatch ==
  /\ Cardinality(Executions) =
       SumSteps(ScenarioResultsSoFar, "passed") + SumSteps(ScenarioResultsSoFar, "failed")
  /\ Cardinality(Returned) =
       SumLengths(ScenarioResultsSoFar) - SumSteps(ScenarioResultsSoFar, "skipped")
  /\ \A n \in 1..Len(calls) :
       calls[n].result.status = "undefined" => (~calls[n].called /\ ~calls[n].ran)
  /\ \A k \in 1..Len(ScenarioResultsSoFar) :
       \A i \in 1..Len(ScenarioResultsSoFar[k].steps) :
         ScenarioResultsSoFar[k].steps[i].status = "skipped" =>
           ~\E n \in 1..Len(calls) :
              calls[n].child = ScenarioIndex(document, k) /\ calls[n].step = i

\* a report with an undefined step followed by a skipped step that a
\* definition matches, and with one executed step
C19_Witness ==
  /\ pc = "report"
  /\ Len(results.scenarios) = 2
  /\ Statuses(results.scenarios[1]) = <<"undefined", "skipped">>
  /\ ~NoDefinitionMatches(results.scenarios[1].steps[2].text,
                          results.scenarios[1].steps[2].keyword)
  /\ Statuses(results.scenarios[2]) = <<"failed">>
  /\ Cardinality(Executions) = 1
  /\ Len(calls) = 2

\* C20: the loader registers no definition with an empty script: every script
\* of the loaded definitions has a line that is not blank.
C20_NoEmptyDefinition ==
  \A i \in 1..Len(implementations) : ~BlankScript(implementations[i].script)

CommentLines == {"# widget steps"}

EndsBlock(line) == line = "" \/ line \in CommentLines

\* C21: the script of a loaded definition ends at the first blank line or
\* comment line of its block: no line of the script stands after a blank line
\* or a comment line of it.
C21_BlockEndsAtBlankLine ==
  \A i \in 1..Len(implementations) :
    \A j, k \in 1..Len(implementations[i].script) :
      (j < k /\ EndsBlock(implementations[i].script[j])) =>
        implementations[i].script[k] = ""

\* block a stands before block b, in the order of the files and of their lines
Before(a, b) == a[1] < b[1] \/ (a[1] = b[1] /\ a[2] < b[2])

\* the patterns of the blocks that the loader registers
RegisteredPatterns(files) ==
  UNION { { files[f][i].pattern :
              i \in {j \in ImplementsLines(files[f]) : BlockLines(files[f], j) # <<>>} } :
          f \in 1..Len(files) }

\* C22: when the files are loaded, the definitions stand in the order in
\* which their patterns first appear, file after file and line after line,
\* every registered pattern is among them once, and run_step passes over no
\* matching definition whose pattern appears before the one it selects.
C22_LoadOrder ==
  /\ pc = "parse" =>
       /\ {implementations[i].pattern : i \in 1..Len(implementations)}
            = RegisteredPatterns(impl_files)
       /\ \A i, j \in 1..Len(implementations) :
            i < j <=> Before(FirstBlockOf(impl_files, implementations[i].pattern),
                             FirstBlockOf(impl_files, implementations[j].pattern))
  /\ \A n \in NewestCall :
       calls[n].selected # 0 =>
         \A j \in (1..Len(implementations)) \ {calls[n].selected} :
           PatternMatches(implementations[j].pattern, calls[n].text, calls[n].keyword)
             => Before(FirstBlockOf(impl_files, implementations[calls[n].selected].pattern),
                       FirstBlockOf(impl_files, implementations[j].pattern))

\* a step given to a definition of the first file although a definition of
\* the second file matches it too
C22_Witness ==
  \E n \in 1..Len(calls) :
    /\ calls[n].selected # 0
    /\ \E j \in 1..Len(implementations) :
         /\ FirstBlockOf(impl_files, implementations[j].pattern)[1]
              > FirstBlockOf(impl_files, implementations[calls[n].selected].pattern)[1]
         /\ PatternMatches(implementations[j].pattern, calls[n].text, calls[n].keyword)

\* C23: at every point of a run the counter steps.undefined is the number of
\* undefined step results and steps.failed the number of failed ones, which
\* are the steps whose script ended with a non-zero exit code; a scenario with
\* an undefined step is failed and is counted under scenarios.failed.
C23_UndefinedCountedApart ==
  /\ results.summary.steps.undefined = SumSteps(ScenarioResultsSoFar, "undefined")
  /\ results.summary.steps.failed = SumSteps(ScenarioResultsSoFar, "failed")
  /\ \A n \in NewestCall :
       /\ calls[n].result.status = "undefined" <=> ~calls[n].called
       /\ (calls[n].called /\ ~calls[n].exited) =>
            (calls[n].result.status = "failed" <=> calls[n].result.exit_code # Some(0))
  /\ \A k \in 1..Len(results.scenarios) :
       (\E i \in 1..Len(results.scenarios[k].steps) :
          results.scenarios[k].steps[i].status = "undefined") =>
         results.scenarios[k].status = "failed"
  /\ results.summary.scenarios.failed = CountScenarios(results.scenarios, "failed")

\* a report of a scenario whose only step is undefined and of a scenario
\* whose only step failed
C23_Witness ==
  /\ pc = "report"
  /\ Len(results.scenarios) = 2
  /\ Statuses(results.scenarios[1]) = <<"undefined">>
  /\ Statuses(results.scenarios[2]) = <<"failed">>
  /\ results.summary.steps.undefined = 1
  /\ results.summary.steps.failed = 1
  /\ results.summary.scenarios.failed = 2

\* C24: when the feature document does not parse or holds no feature, no call
\* of run_step is made and no script is run; what run_gherkin_file returns is
\* the error object, without scenario results and without counters, and main
\* exits with 1.
C24_ParseFailureAborts ==
  document.parsed \in {"error", "no feature"} =>
    /\ calls = <<>>
    /\ pc \in {"report", "exit"}
    /\ results.error
    /\ ~results.counted
    /\ results.scenarios = <<>>
    /\ pc = "exit" => exit_code = Some(1)

\* main has exited after a document without a feature, with definitions loaded
C24_Witness ==
  /\ document.parsed = "no feature"
  /\ implementations # <<>>
  /\ pc = "exit"

\* C25: every ScenarioResult of the report has one entry per declared step of
\* its scenario, the i-th with the keyword and the text of the i-th declared
\* step, and the k-th ScenarioResult belongs to the k-th scenario of the
\* document; the one under construction has one entry per step gone through.
C25_OneResultPerStep ==
  /\ Len(results.scenarios) <= Len(ScenarioChildren(document))
  /\ \A k \in 1..Len(results.scenarios) :
       ReportsScenario(results.scenarios[k], ScenarioChildren(document)[k])
  /\ pc = "step" =>
       /\ Len(scenario_result.steps) = step - 1
       /\ \A i \in 1..Len(scenario_result.steps) :
            /\ scenario_result.steps[i].text = document.children[child].steps[i].text
            /\ scenario_result.steps[i].keyword =
                 Strip(document.children[child].steps[i].keyword)

\* the report of a document with a Background and a scenario of two different
\* steps, the second of them skipped
C25_Witness ==
  /\ pc = "report"
  /\ Len(document.children) = 2
  /\ document.children[1].kind = "background"
  /\ Len(results.scenarios) = 1
  /\ Statuses(results.scenarios[1]) = <<"failed", "skipped">>
  /\ results.scenarios[1].steps[1].text # results.scenarios[1].steps[2].text

\* C26: a step is skipped only after a failed or undefined step of its
\* scenario, and the statuses of a scenario read passed* (failed | undefined)?
\* skipped*: before a failed or undefined step all steps passed, after it all
\* are skipped, so there is at most one such step.
C26_StatusShape ==
  \A sr \in AllScenarioResults :
    \A i \in 1..Len(sr.steps) :
      /\ sr.steps[i].status \in {"passed", "failed", "undefined", "skipped"}
      /\ sr.steps[i].status = "skipped" =>
           \E j \in 1..(i - 1) : sr.steps[j].status \in {"failed", "undefined"}
      /\ sr.steps[i].status \in {"failed", "undefined"} =>
           /\ \A j \in 1..(i - 1) : sr.steps[j].status = "passed"
           /\ \A j \in (i + 1)..Len(sr.steps) : sr.steps[j].status = "skipped"

\* a scenario of the report whose steps ended passed, undefined, skipped
C26_Witness ==
  \E k \in 1..Len(results.scenarios) :
    Statuses(results.scenarios[k]) = <<"passed", "undefined", "skipped">>

\* C27: when run_gherkin_file has returned without an error, steps.total is
\* the sum of steps.passed, failed, skipped and undefined, and scenarios.total
\* the sum of scenarios.passed and failed.
C27_CountersPartition ==
  (pc \in {"report", "exit"} /\ results.counted) =>
    /\ results.summary.steps.total =
         results.summary.steps.passed + results.summary.steps.failed
         + results.summary.steps.skipped + results.summary.steps.undefined
    /\ results.summary.scenarios.total =
         results.summary.scenarios.passed + results.summary.scenarios.failed

\* main has exited after a run with a passed scenario and a failed one, and
\* with a passed, a failed and a skipped step
C27_Witness ==
  /\ pc = "exit"
  /\ results.counted
  /\ results.summary.scenarios.passed = 1
  /\ results.summary.scenarios.failed = 1
  /\ results.summary.steps.passed = 1
  /\ results.summary.steps.failed = 1
  /\ results.summary.steps.skipped = 1

\* the value a script finds in PREVIOUS_STEP_STDOUT
PreviousStepStdout(context) ==
  IF "PREVIOUS_STEP_STDOUT" \in DOMAIN context THEN context["PREVIOUS_STEP_STDOUT"]
  ELSE <<>>

\* C28: a step handed to the executor that is not the first of its scenario
\* finds in PREVIOUS_STEP_STDOUT the stripped stdout of the step just before
\* it, and nothing when that step printed nothing.
C28_PreviousStdoutIsFresh ==
  \A n \in 2..Len(calls) :
    (calls[n].called /\ calls[n].step > 1 /\ calls[n - 1].child = calls[n].child) =>
      PreviousStepStdout(calls[n].context) =
        (IF calls[n - 1].result.stdout = None THEN <<>>
         ELSE Strip(calls[n - 1].result.stdout[1]))

RECURSIVE DeclaredSteps(_)
DeclaredSteps(children) ==
  IF children = <<>> THEN 0
  ELSE Len(Head(children).steps) + DeclaredSteps(Tail(children))

\* C29: when run_gherkin_file has returned without an error, steps.total is
\* the number of steps declared in the document, those of the children that
\* are no plain scenario among them.
C29_EveryDeclaredStepCounted ==
  (pc \in {"report", "exit"} /\ results.counted) =>
    results.summary.steps.total = DeclaredSteps(document.children)

NoDuplicates(list) == \A i, j \in 1..Len(list) : i < j => list[i] # list[j]

RelationshipKeys ==
  {"supported_by_rules", "verified_by", "supports_principles", "governed_by_principles"}

\* the artifacts with an entry in the spec files
Artifacts(files) ==
  UNION { {PathOf(dir, name) : name \in DOMAIN files[dir]} : dir \in DOMAIN files }

EntryOf(files, artifact) == files[artifact.dir][artifact.name]

\* the relationship lists are the same in both, a missing list counting as
\* an empty one
SameLists(files, other) ==
  /\ Artifacts(files) = Artifacts(other)
  /\ \A a \in Artifacts(files) :
       \A key \in RelationshipKeys :
         LinksOf(EntryOf(files, a), key) = LinksOf(EntryOf(other, a), key)

\* C30: after any sequence of link and unlink commands on spec files whose
\* lists hold no duplicates, no relationship list holds a target twice; a
\* command leaves the entry of every artifact but its source as it was; a
\* link given again changes nothing; and the unlink of a link just added
\* gives back the lists as they were before the link.
C30_LinkUnlink ==
  /\ \A a \in Artifacts(spec_files) :
       \A key \in DOMAIN EntryOf(spec_files, a) :
         NoDuplicates(EntryOf(spec_files, a)[key])
  /\ last # <<>> =>
       /\ Artifacts(spec_files) = Artifacts(last[1].before)
       /\ \A a \in Artifacts(spec_files) :
            get_artifact_path(last[1].source) # Some(a) =>
              EntryOf(spec_files, a) = EntryOf(last[1].before, a)
       /\ last[1].op = "link" =>
            link(spec_files, last[1].source, last[1].target).files = spec_files
       /\ (last[1].op = "link" /\ spec_files # last[1].before) =>
            SameLists(unlink(spec_files, last[1].source, last[1].target).files,
                      last[1].before)

\* a link, given with the singular directory name, has added a second target
\* to a list
C30_Witness ==
  /\ last # <<>>
  /\ last[1].op = "link"
  /\ last[1].target = PathOf("rule", "R1")
  /\ LinksOf(EntryOf(last[1].before, PathOf("principles", "P1")), "supported_by_rules")
       = <<PathOf("rules", "R2")>>
  /\ LinksOf(EntryOf(spec_files, PathOf("principles", "P1")), "supported_by_rules")
       = <<PathOf("rules", "R2"), PathOf("rules", "R1")>>

====
